---- MODULE Spec2Model ----
(***************************************************************************)
(* The four-agent pipeline of src/exp1/complex.py: SimpleOrchestrator      *)
(* (analyze_query, execute_plan, process_query) and ChatAgent              *)
(* (format_response, process_user_message), with the tools the two         *)
(* sub-agents wrap and the interactive loop around it; the report tools    *)
(* of src/agentAsTools.py; the recruitment tools of src/exp2/agents.py;    *)
(* the model search of src/exp1/5.py.  Each program has its own variables  *)
(* and its own specification; the variables of the other programs stay     *)
(* put.  Python strings are TLA+ strings; a character is a string of       *)
(* length one.                                                             *)
(***************************************************************************)
EXTENDS Integers, Sequences, FiniteSets, TLC

\* ------------------------------------------------------------------------
\* Bounds of the model
\* ------------------------------------------------------------------------

\* A request text is a concatenation of at most MaxFrags fragments.
MaxFrags == 3

\* A session goes on while the two agents' memories hold fewer than
\* MaxMemory messages.
MaxMemory == 5

\* The report tools record at most MaxNotes research notes.
MaxNotes == 2

\* A city name passed to get_weather is a concatenation of at most
\* MaxNameFrags fragments.
MaxNameFrags == 2

\* ------------------------------------------------------------------------
\* Python str primitives
\* ------------------------------------------------------------------------

Char(s, i) == SubSeq(s, i, i)

UpperAlpha == "ABCDEFGHIJKLMNOPQRSTUVWXYZ"
LowerAlpha == "abcdefghijklmnopqrstuvwxyz"
Digits == "0123456789"

IndexIn(c, a) == CHOOSE i \in 1..Len(a) : Char(a, i) = c

\* the characters of an alphabet string, as a set
CharsOf(a) == {Char(a, i) : i \in 1..Len(a)}

DigitChars == CharsOf(Digits)
WordChars == CharsOf(LowerAlpha) \cup CharsOf(UpperAlpha) \cup DigitChars \cup {"_"}

\* the lower-case letter of every upper-case letter
LowerOf == [c \in CharsOf(UpperAlpha) |-> Char(LowerAlpha, IndexIn(c, UpperAlpha))]

IsDigit(c) == c \in DigitChars

\* \w of the re module
IsWord(c) == c \in WordChars

\* \s of the re module
IsSpace(c) == c \in {" ", "\t", "\n", "\r", "\f"}

\* what "." matches (no DOTALL flag)
IsDot(c) == c # "\n"

LowerChar(c) == IF c \in DOMAIN LowerOf THEN LowerOf[c] ELSE c

RECURSIVE lower(_)
\* str.lower()
lower(s) == IF s = "" THEN "" ELSE LowerChar(Char(s, 1)) \o lower(SubSeq(s, 2, Len(s)))

\* sub occurs in s starting at index i (1-based)
StartsAt(s, sub, i) ==
    /\ i >= 1
    /\ i + Len(sub) - 1 <= Len(s)
    /\ SubSeq(s, i, i + Len(sub) - 1) = sub

\* Python's  sub in s
In(sub, s) == \E i \in 1..(Len(s) - Len(sub) + 1) : StartsAt(s, sub, i)

\* Python's  any(keyword in s for keyword in keywords)
AnyIn(keywords, s) == \E k \in 1..Len(keywords) : In(keywords[k], s)

Min(S) == CHOOSE x \in S : \A y \in S : x <= y
Max(S) == CHOOSE x \in S : \A y \in S : x >= y

\* c is in the character class \d, \s or \w
InClass(c, class) ==
    CASE class = "d" -> IsDigit(c)
      [] class = "s" -> IsSpace(c)
      [] class = "w" -> IsWord(c)

\* last index of the maximal run of characters of a class that starts at k
\* (k - 1 when the run is empty)
RunEnd(s, k, class) ==
    LET stops == {e \in k..(Len(s) + 1) : e = Len(s) + 1 \/ ~InClass(Char(s, e), class)}
    IN  Min(stops) - 1

\* ------------------------------------------------------------------------
\* The regular expressions of analyze_query (re.findall semantics: matches
\* are leftmost, non-overlapping, scanned left to right; with one group the
\* result lists the group's text)
\* ------------------------------------------------------------------------

\* every character of s[a..b] is matched by "."
AllDot(s, a, b) == \A k \in a..b : IsDot(Char(s, k))

\* length of the alternative of (?:in|of|for) that matches at j, 0 if none
PrepLenAt(s, j) ==
    IF StartsAt(s, "in", j) THEN 2
    ELSE IF StartsAt(s, "of", j) THEN 2
    ELSE IF StartsAt(s, "for", j) THEN 3
    ELSE 0

\* (?:in|of|for)\s+(\w+) matched at j: <<first, last>> index of the group,
\* <<0, 0>> when there is no match.  \s+ and \w+ are greedy and their
\* character classes are disjoint, so only the full runs can match.
PrepGroupAt(s, j) ==
    LET pl == PrepLenAt(s, j)
        se == RunEnd(s, j + pl, "s")
        we == RunEnd(s, se + 1, "w")
    IN  IF pl > 0 /\ se >= j + pl /\ we >= se + 1 THEN <<se + 1, we>> ELSE <<0, 0>>

RECURSIVE FindKwPrep(_, _, _)
\* re.findall(kw + r'.*?(?:in|of|for)\s+(\w+)', s) from index pos on
FindKwPrep(s, kw, pos) ==
    LET \* where the lazy .*? may stop after kw matched at i
        Stops(i) == {j \in (i + Len(kw))..Len(s) :
                        /\ PrepGroupAt(s, j)[1] > 0
                        /\ AllDot(s, i + Len(kw), j - 1)}
        starts == {i \in pos..Len(s) : StartsAt(s, kw, i) /\ Stops(i) # {}}
    IN  IF starts = {} THEN <<>>
        ELSE LET i == Min(starts)
                 g == PrepGroupAt(s, Min(Stops(i)))
             IN  <<SubSeq(s, g[1], g[2])>> \o FindKwPrep(s, kw, g[2] + 1)

RECURSIVE FindPrepKw(_, _, _)
\* re.findall(r'(?:in|of|for)\s+(\w+).*?' + kw, s) from index pos on.
\* The greedy \w+ gives characters back until kw can follow the lazy .*?
FindPrepKw(s, kw, pos) ==
    LET KwAfter(e) == {w \in (e + 1)..Len(s) : StartsAt(s, kw, w) /\ AllDot(s, e + 1, w - 1)}
        \* ends of the group for which the rest of the pattern matches
        Ends(i) == LET g == PrepGroupAt(s, i)
                   IN  IF g[1] = 0 THEN {} ELSE {e \in g[1]..g[2] : KwAfter(e) # {}}
        starts == {i \in pos..Len(s) : Ends(i) # {}}
    IN  IF starts = {} THEN <<>>
        ELSE LET i == Min(starts)
                 g == PrepGroupAt(s, i)
                 e == Max(Ends(i))
                 w == Min(KwAfter(e))
             IN  <<SubSeq(s, g[1], e)>> \o FindPrepKw(s, kw, w + Len(kw))

RECURSIVE FindNumbers(_, _)
\* re.findall(r'\d+\.?\d*', s) from index pos on
FindNumbers(s, pos) ==
    LET starts == {i \in pos..Len(s) : IsDigit(Char(s, i))}
    IN  IF starts = {} THEN <<>>
        ELSE LET i  == Min(starts)
                 d1 == RunEnd(s, i, "d")
                 e  == IF StartsAt(s, ".", d1 + 1) THEN RunEnd(s, d1 + 2, "d") ELSE d1
             IN  <<SubSeq(s, i, e)>> \o FindNumbers(s, e + 1)

\* ------------------------------------------------------------------------
\* SimpleOrchestrator.analyze_query
\* ------------------------------------------------------------------------

math_keywords ==
    <<"add", "subtract", "multiply", "divide", "calculate", "compute",
      "+", "-", "*", "/", "times", "plus", "minus", "divided by",
      "what is", "equals", "sum", "difference", "product", "quotient">>

weather_keywords ==
    <<"weather", "temperature", "temp", "climate", "forecast",
      "hot", "cold", "sunny", "rainy", "cloudy">>

common_cities == <<"india", "new york", "london", "tokyo", "paris", "berlin">>

\* the loop over city_patterns: cities.extend(re.findall(pattern, query_lower))
PatternCities(query_lower) ==
    FindKwPrep(query_lower, "weather", 1)
        \o FindKwPrep(query_lower, "temperature", 1)
        \o FindPrepKw(query_lower, "weather", 1)

\* the fallback loop over common_cities
GazetteerCities(query_lower) ==
    SelectSeq(common_cities, LAMBDA city : In(city, query_lower))

\* the list of known names consulted whatever the patterns found
ExtractCities_Both(query_lower) ==
    PatternCities(query_lower) \o GazetteerCities(query_lower)

ExtractCities(query_lower) ==
    LET cities == PatternCities(query_lower)
    IN  IF cities = <<>> THEN GazetteerCities(query_lower) ELSE cities

\* analyze_query matching the keywords against the text as typed
analyze_query_CaseSensitive(query) ==
    [has_math       |-> AnyIn(math_keywords, query),
     has_weather    |-> AnyIn(weather_keywords, query),
     numbers        |-> FindNumbers(query, 1),
     cities         |-> ExtractCities(lower(query)),
     original_query |-> query]

analyze_query(query) ==
    LET query_lower == lower(query)
    IN  [has_math       |-> AnyIn(math_keywords, query_lower),
         has_weather    |-> AnyIn(weather_keywords, query_lower),
         numbers        |-> FindNumbers(query, 1),
         cities         |-> ExtractCities(query_lower),
         original_query |-> query]

\* ------------------------------------------------------------------------
\* The tools and the two sub-agents
\* ------------------------------------------------------------------------

add(x, y) == x + y

subtract(x, y) == x - y

multiply(x, y) == x * y

\* x / y is Python's true division; the model applies it to operands whose
\* quotient is integral
divide(x, y) == IF y = 0 THEN "Error: Division by zero" ELSE x \div y

weather_cities == <<"india", "new york", "london", "tokyo", "paris", "berlin">>

weather_data ==
    [c \in {weather_cities[i] : i \in 1..Len(weather_cities)} |->
        CASE c = "india"    -> "Temperature: 30°C, Sunny and hot"
          [] c = "new york" -> "Temperature: 22°C, Partly cloudy"
          [] c = "london"   -> "Temperature: 18°C, Rainy"
          [] c = "tokyo"    -> "Temperature: 25°C, Clear skies"
          [] c = "paris"    -> "Temperature: 20°C, Cloudy"
          [] c = "berlin"   -> "Temperature: 19°C, Overcast"]

\* the table looked up with the name as given
get_weather_CaseSensitive(city) ==
    IF city \in DOMAIN weather_data
    THEN "Weather in " \o city \o ": " \o weather_data[city]
    ELSE "Weather in " \o city \o ": Temperature: 25°C, Partly cloudy (default)"

get_weather(city) ==
    LET city_lower == lower(city)
    IN  IF city_lower \in DOMAIN weather_data
        THEN "Weather in " \o city \o ": " \o weather_data[city_lower]
        ELSE "Weather in " \o city \o ": Temperature: 25°C, Partly cloudy (default)"

\* The tool calls the calculator agent may decide on for a request
CalcOps == {"add", "subtract", "multiply", "divide"}
CalcXs == {8}
CalcYs == {0, 2}

\* str() of a tool's return value, which is what the agent is shown: an int
\* for add/subtract/multiply of ints, a float for a quotient, or divide's
\* error string
ToolOutput(fn, x, y) ==
    CASE fn = "add"      -> ToString(add(x, y))
      [] fn = "subtract" -> ToString(subtract(x, y))
      [] fn = "multiply" -> ToString(multiply(x, y))
      [] fn = "divide"   -> IF y = 0 THEN divide(x, y) ELSE ToString(divide(x, y)) \o ".0"

\* The tools a chain of two calls is made of, and the int a tool returns
ChainOps == {"add", "subtract", "multiply"}

ToolValue(fn, x, y) ==
    CASE fn = "add"      -> add(x, y)
      [] fn = "subtract" -> subtract(x, y)
      [] fn = "multiply" -> multiply(x, y)

RECURSIVE IntOf(_, _)
\* the int the agent passes for a numeral of the request: the value of its
\* leading digits (acc is the value read so far)
IntOf(s, acc) ==
    IF s = "" \/ ~IsDigit(Char(s, 1)) THEN acc
    ELSE IntOf(SubSeq(s, 2, Len(s)), 10 * acc + IndexIn(Char(s, 1), Digits) - 1)

\* The message execute_plan sends to the weather agent for a city
weather_query(city) == "What is the weather in " \o city \o "?"

WeatherPrefixLen == Len("What is the weather in ")

\* weather_agent.achat(msg) when it returns: the agent looks the city of the
\* message up with its get_weather tool and answers with the tool's result
WeatherAgentReply(msg) == get_weather(SubSeq(msg, WeatherPrefixLen + 1, Len(msg) - 1))

\* The exceptions an achat call may raise (str(e))
ExcMsgs == {"Request timed out"}

\* ------------------------------------------------------------------------
\* SimpleOrchestrator.execute_plan, one step per awaited agent call
\* ------------------------------------------------------------------------

EmptyResults == [weather_results |-> <<>>, calculation_results |-> <<>>, execution_log |-> <<>>]

\* the weather loop without the 'default location' stand-in
PlanCities_NoDefault(an) == an.cities

\* cities = analysis['cities'] if analysis['cities'] else ['default location']
PlanCities(an) == IF an.cities # <<>> THEN an.cities ELSE <<"default location">>

\* execute_plan querying the weather whenever a city was extracted
Goto_CitiesImplyWeather(an, k) ==
    IF (an.has_weather \/ an.cities # <<>>) /\ k <= Len(PlanCities(an))
    THEN [pc |-> "weather", city_i |-> k]
    ELSE IF an.has_math THEN [pc |-> "math", city_i |-> 0]
    ELSE [pc |-> "done", city_i |-> 0]

\* Where execute_plan stands once the weather loop has handled k - 1 cities
Goto(an, k) ==
    IF an.has_weather /\ k <= Len(PlanCities(an)) THEN [pc |-> "weather", city_i |-> k]
    ELSE IF an.has_math THEN [pc |-> "math", city_i |-> 0]
    ELSE [pc |-> "done", city_i |-> 0]

\* the try statement put around the whole for loop: a failure ends the loop
AfterWeather_BreakOnFailure(an, k, failed) ==
    IF failed THEN Goto(an, Len(PlanCities(an)) + 1) ELSE Goto(an, k + 1)

\* Control after the try statement of city k has ended; failed tells whether
\* the except clause ran.  Either way the for loop goes on.
AfterWeather(an, k, failed) == Goto(an, k + 1)

\* the calculator call made outside any try statement: its exception leaves
\* execute_plan, process_query and process_user_message
AfterMath_Propagate(an, failed) ==
    IF failed THEN [pc |-> "raised", city_i |-> 0] ELSE [pc |-> "done", city_i |-> 0]

\* Control after the try statement of the calculator call has ended
AfterMath(an, failed) == [pc |-> "done", city_i |-> 0]

\* The agent call made on arriving at loc
CallAt(an, loc) ==
    IF loc.pc = "weather"
    THEN <<[agent |-> "weather", msg |-> weather_query(PlanCities(an)[loc.city_i])]>>
    ELSE IF loc.pc = "math"
    THEN <<[agent |-> "calculator", msg |-> an.original_query]>>
    ELSE <<>>

\* The marks that open an execution_log entry (the source's check-mark and
\* cross-mark emoji, written in ASCII)
LogOk == "[ok] "
LogFail == "[failed] "

WeatherSuccess(res, city, response) ==
    [res EXCEPT !.weather_results = Append(@, [city |-> city, response |-> response]),
                !.execution_log = Append(@, LogOk \o "Weather query for " \o city \o " completed")]

\* the except clause reporting the exception as the city's result
WeatherFailure_Surfaced(res, city, e) ==
    [res EXCEPT !.weather_results = Append(@, [city |-> city, response |-> "Error: " \o e]),
                !.execution_log = Append(@, LogFail \o "Weather query for " \o city \o " failed: " \o e)]

WeatherFailure(res, city, e) ==
    [res EXCEPT !.execution_log = Append(@, LogFail \o "Weather query for " \o city \o " failed: " \o e)]

MathSuccess(res, q, response) ==
    [res EXCEPT !.calculation_results = Append(@, [query |-> q, response |-> response]),
                !.execution_log = Append(@, LogOk \o "Mathematical calculation completed")]

MathFailure(res, e) ==
    [res EXCEPT !.execution_log = Append(@, LogFail \o "Mathematical calculation failed: " \o e)]

\* ------------------------------------------------------------------------
\* ChatAgent.format_response
\* ------------------------------------------------------------------------

Fallback == "I couldn't find specific information to answer your query."

MathLabel == "Mathematical result: "
WeatherLabel == "Weather information: "

RECURSIVE Join(_, _)
\* sep.join(parts)
Join(parts, sep) ==
    IF parts = <<>> THEN ""
    ELSE IF Len(parts) = 1 THEN parts[1]
    ELSE parts[1] \o sep \o Join(Tail(parts), sep)

\* the parts without their labels
ResponseParts_Unlabeled(res) ==
    LET calc == [i \in 1..Len(res.calculation_results) |-> res.calculation_results[i].response]
        wthr == [i \in 1..Len(res.weather_results) |-> res.weather_results[i].response]
    IN  IF calc \o wthr = <<>> THEN <<Fallback>> ELSE calc \o wthr

ResponseParts(res) ==
    LET calc == [i \in 1..Len(res.calculation_results) |->
                    MathLabel \o res.calculation_results[i].response]
        wthr == [i \in 1..Len(res.weather_results) |->
                    WeatherLabel \o res.weather_results[i].response]
    IN  IF calc \o wthr = <<>> THEN <<Fallback>> ELSE calc \o wthr

format_response(res, original_query) == Join(ResponseParts(res), "\n\n")

\* ------------------------------------------------------------------------
\* Requests
\* ------------------------------------------------------------------------

Fragments == {"weather", " in ", "Paris", "london", "add", " ", "Hot", "8/0"}

ExampleQueries ==
    {"add 2 and 3 and tell me the weather in Paris",
     "What is 10 - 5? Then add 3.",
     "weather in Tokyo",
     "weather in Nowhereville",
     "What is the weather in India and what is 2+2?",
     "What is the temperature and the weather in London?",
     "  "}

RECURSIVE Texts(_)
\* the concatenations of at most n fragments
Texts(n) == IF n = 0 THEN {""} ELSE LET T == Texts(n - 1) IN T \cup {t \o f : t \in T, f \in Fragments}

Queries == Texts(MaxFrags) \cup ExampleQueries

\* ------------------------------------------------------------------------
\* State
\* ------------------------------------------------------------------------

VARIABLES
    pc,             \* "idle"; "weather" / "math": execute_plan awaits that
                    \* agent; "done": process_user_message returned;
                    \* "raised": an exception left process_user_message
    city_i,         \* index of the weather loop while pc = "weather"
    analysis,       \* process_query's analysis
    results,        \* execute_plan's results
    final_response, \* what process_user_message returned (pc = "done")
    calls,          \* history: the agent calls of the request, in order
    tool_calls,     \* history: the calculator tool calls of the request
    replies,        \* history: the answers the agent calls of the request
                    \* returned, in the order they returned
    seen,           \* history: the responses returned so far to requests that
                    \* implicated no domain ("none") and to requests whose
                    \* every agent call failed ("failed")
    context,        \* SimpleOrchestrator.context
    memory,         \* the number of chat messages in the ChatMemoryBuffer of
                    \* each of the two module-level agents
    prev            \* what the caller holds of the request before this one:
                    \* its analysis, the answers its agent calls returned and
                    \* the results execute_plan returned

pipeline_vars ==
    <<pc, city_i, analysis, results, final_response, calls, tool_calls, replies, seen, context>>

\* Followed only in a session (SpecSession below); no statement of the
\* pipeline reads either
session_vars == <<memory, prev>>

NoAnalysis == analyze_query("")

\* The request implicated no domain / made calls that all failed
NoDomain(an) == ~an.has_math /\ ~an.has_weather
AllFailed(cs, res) ==
    cs # <<>> /\ res.weather_results = <<>> /\ res.calculation_results = <<>>

\* self.context as __init__ builds it
NewContext == [weather_results |-> <<>>, calculation_results |-> <<>>, task_sequence |-> <<>>]

\* process_user_message returns when execute_plan has: the response is
\* formatted and recorded in the history.  No statement of the class reads
\* or writes self.context after __init__.
Finish(loc, an, res, cs) ==
    LET resp == format_response(res, an.original_query)
    IN  IF loc.pc = "done"
        THEN /\ final_response' = resp
             /\ seen' = [seen EXCEPT
                    !.none   = IF NoDomain(an) THEN @ \cup {resp} ELSE @,
                    !.failed = IF AllFailed(cs, res) THEN @ \cup {resp} ELSE @]
        ELSE UNCHANGED <<final_response, seen>>

Arrive(loc, an, res) ==
    /\ pc' = loc.pc
    /\ city_i' = loc.city_i
    /\ results' = res
    /\ calls' = calls \o CallAt(an, loc)
    /\ Finish(loc, an, res, calls')
    /\ UNCHANGED context

\* execute_plan filling the two result lists it returned last time instead
\* of new ones
Receive_KeepLists(query) ==
    LET kept == [prev.results EXCEPT !.execution_log = <<>>]
    IN  /\ pc = "idle"
        /\ analysis' = analyze_query(query)
        /\ pc' = Goto(analysis', 1).pc
        /\ city_i' = Goto(analysis', 1).city_i
        /\ results' = kept
        /\ calls' = CallAt(analysis', Goto(analysis', 1))
        /\ Finish(Goto(analysis', 1), analysis', kept, calls')
        /\ UNCHANGED <<tool_calls, replies, context>>

\* process_user_message(query) up to the first awaited agent call
Receive(query) ==
    /\ pc = "idle"
    /\ analysis' = analyze_query(query)
    /\ pc' = Goto(analysis', 1).pc
    /\ city_i' = Goto(analysis', 1).city_i
    /\ results' = EmptyResults
    /\ calls' = CallAt(analysis', Goto(analysis', 1))
    /\ Finish(Goto(analysis', 1), analysis', EmptyResults, calls')
    /\ UNCHANGED <<tool_calls, replies, context>>

\* the weather agent answers for the current city
WeatherReply ==
    /\ pc = "weather"
    /\ LET city == PlanCities(analysis)[city_i]
           response == WeatherAgentReply(calls[Len(calls)].msg)
       IN  /\ Arrive(AfterWeather(analysis, city_i, FALSE), analysis,
                     WeatherSuccess(results, city, response))
           /\ replies' = Append(replies, [agent |-> "weather", response |-> response])
    /\ UNCHANGED <<analysis, tool_calls>>

\* the weather agent call raises
WeatherRaise(e) ==
    /\ pc = "weather"
    /\ LET city == PlanCities(analysis)[city_i]
       IN  Arrive(AfterWeather(analysis, city_i, TRUE), analysis,
                  WeatherFailure(results, city, e))
    /\ UNCHANGED <<analysis, tool_calls, replies>>

\* the calculator agent calls a tool and answers with its output
CalcReply(fn, x, y) ==
    /\ pc = "math"
    /\ tool_calls' = Append(tool_calls, <<fn, x, y>>)
    /\ replies' = Append(replies, [agent |-> "calculator", response |-> ToolOutput(fn, x, y)])
    /\ Arrive(AfterMath(analysis, FALSE), analysis,
              MathSuccess(results, analysis.original_query, ToolOutput(fn, x, y)))
    /\ UNCHANGED analysis

\* the calculator agent works a request that names three numbers out in two
\* tool calls, the second on the result of the first, and answers with the
\* last output
CalcChainReply(fn1, fn2) ==
    /\ pc = "math"
    /\ LET nums == FindNumbers(calls[Len(calls)].msg, 1)
       IN  /\ Len(nums) >= 3
           /\ LET x == IntOf(nums[1], 0)
                  y == IntOf(nums[2], 0)
                  z == IntOf(nums[3], 0)
                  first == ToolValue(fn1, x, y)
                  response == ToString(ToolValue(fn2, first, z))
              IN  /\ tool_calls' = tool_calls \o << <<fn1, x, y>>, <<fn2, first, z>> >>
                  /\ replies' = Append(replies, [agent |-> "calculator", response |-> response])
                  /\ Arrive(AfterMath(analysis, FALSE), analysis,
                            MathSuccess(results, analysis.original_query, response))
    /\ UNCHANGED analysis

\* the calculator agent call raises
CalcRaise(e) ==
    /\ pc = "math"
    /\ Arrive(AfterMath(analysis, TRUE), analysis, MathFailure(results, e))
    /\ UNCHANGED <<analysis, tool_calls, replies>>

\* the caller is done with the response; everything of the request is dropped
NextRequest ==
    /\ pc = "done"
    /\ pc' = "idle"
    /\ city_i' = 0
    /\ analysis' = NoAnalysis
    /\ results' = EmptyResults
    /\ final_response' = ""
    /\ calls' = <<>>
    /\ tool_calls' = <<>>
    /\ replies' = <<>>
    /\ UNCHANGED <<seen, context>>

\* ------------------------------------------------------------------------
\* A session: the requests of one process, with what outlives a request
\* ------------------------------------------------------------------------

SessionQueries ==
    {"weather in Tokyo",
     "What is 10 - 5? Then add 3.",
     "What is the temperature and the weather in London?",
     "  "}

\* achat leaves n more messages in the agent's memory
Remember(agent, n) == memory' = [memory EXCEPT ![agent] = @ + n]

\* ------------------------------------------------------------------------
\* get_weather called on its own (the weather agent passes the tool whatever
\* city name it reads in its message)
\* ------------------------------------------------------------------------

VARIABLES
    lookup_city,    \* the argument of the last get_weather call
    lookup_result   \* what the call returned ("" before the first call)

lookup_vars == <<lookup_city, lookup_result>>

NameFragments ==
    {"Tokyo", "TOKYO", "tokyo", "New", "new", " ", "York", "york", "LONDON",
     "Paris", "india", "Berlin", "Nowhereville", "x"}

RECURSIVE Names(_)
\* the concatenations of at most n name fragments
Names(n) == IF n = 0 THEN {""} ELSE LET N == Names(n - 1) IN N \cup {t \o f : t \in N, f \in NameFragments}

CityArgs == Names(MaxNameFrags)

LookupStart ==
    /\ lookup_city = ""
    /\ lookup_result = ""

\* one call of the tool
Lookup(city) ==
    /\ lookup_result = ""
    /\ lookup_city' = city
    /\ lookup_result' = get_weather(city)

\* the caller has taken the result
LookupReturn ==
    /\ lookup_result # ""
    /\ lookup_city' = ""
    /\ lookup_result' = ""

\* ------------------------------------------------------------------------
\* The report tools of src/agentAsTools.py.  A tool call is two steps, one
\* up to its awaited sub-agent run and one from the run's return on; calls
\* of different tools may overlap.  An optional value is a sequence of at
\* most one element (<<>> is None).
\* ------------------------------------------------------------------------

VARIABLES
    report_state,   \* the "state" entry of the workflow context's store
    running,        \* per tool: the user_msg of its awaited sub-agent run,
                    \* "" when the tool is not running
    returned,       \* what the tool call that ended last returned, and which
                    \* tool it was
    held,           \* history: per tool that reads the state before its
                    \* await, the state as it was when the latest call that
                    \* reached the await read it
    report_event    \* history: the step taken last, its tool and its kind:
                    \* "run" (up to the await), "early" (early return),
                    \* "done" (from the await to the return), "raised"

report_vars == <<report_state, running, returned, held, report_event>>

\* initial_state of the orchestrator
initial_state == [research_notes |-> <<>>, report_content |-> <<>>, review |-> <<>>]

\* str.strip()
strip(s) ==
    LET kept == {i \in 1..Len(s) : ~IsSpace(Char(s, i))}
    IN  IF kept = {} THEN "" ELSE SubSeq(s, Min(kept), Max(kept))

\* the report call_write_agent takes from the write agent's result:
\* re.search(r"\.\.\.(.*)\.\.\.", result, re.DOTALL), leftmost opening
\* marks and, .* being greedy, the last closing marks; the whole result when
\* there is no match
ReportOf(result) ==
    LET marks == {i \in 1..(Len(result) - 2) : StartsAt(result, "...", i)}
    IN  IF marks # {} /\ Max(marks) >= Min(marks) + 3
        THEN strip(SubSeq(result, Min(marks) + 3, Max(marks) - 1))
        ELSE result

\* as WriteMsg, the feedback left out
WriteMsg_NoFeedback(state) ==
    "Write a markdown report from the following notes. Be sure to output the report in the following format: ...:\n\n"
        \o Join(state.research_notes, "\n\n") \o "\n\n"

\* the user_msg call_write_agent builds from the state it read
WriteMsg(state) ==
    "Write a markdown report from the following notes. Be sure to output the report in the following format: ...:\n\n"
        \o (IF state.review # <<>> THEN state.review[1] \o "\n\n" ELSE "")
        \o Join(state.research_notes, "\n\n") \o "\n\n"

ReportStart ==
    /\ report_state = initial_state
    /\ running = [research |-> "", write |-> "", review |-> ""]
    /\ returned = [tool |-> "", value |-> ""]
    /\ held = [write |-> initial_state, review |-> initial_state]
    /\ report_event = [tool |-> "", kind |-> ""]

\* a tool that is not running starts its sub-agent run with user_msg
Run(tool, user_msg) ==
    /\ running[tool] = ""
    /\ running' = [running EXCEPT ![tool] = user_msg]
    /\ held' = IF tool \in DOMAIN held THEN [held EXCEPT ![tool] = report_state] ELSE held
    /\ report_event' = [tool |-> tool, kind |-> "run"]
    /\ UNCHANGED <<report_state, returned>>

\* the call of a tool ends, returning value, with the state as given
Return(tool, value, state) ==
    /\ running' = [running EXCEPT ![tool] = ""]
    /\ returned' = [tool |-> tool, value |-> value]
    /\ report_state' = state
    /\ report_event' = [tool |-> tool, kind |-> IF running[tool] = "" THEN "early" ELSE "done"]
    /\ UNCHANGED held

\* call_research_agent up to its await; the number of notes is bounded
ResearchRun(prompt) ==
    /\ Len(report_state.research_notes) < MaxNotes
    /\ Run("research", "Write some notes about the following: " \o prompt)

\* as ResearchDone, the note put in front of the list
ResearchDone_InFront(result) ==
    /\ running.research # ""
    /\ Return("research", result,
              [report_state EXCEPT !.research_notes = <<result>> \o @])

\* call_research_agent from the return of the research agent on
ResearchDone(result) ==
    /\ running.research # ""
    /\ Return("research", result,
              [report_state EXCEPT !.research_notes = Append(@, result)])

\* call_write_agent up to its await, or to its early return
WriteRun ==
    IF report_state.research_notes = <<>>
    THEN /\ running.write = ""
         /\ Return("write", "No research notes to write from.", report_state)
    ELSE Run("write", WriteMsg(report_state))

\* as WriteDone, storing back the state as it was before the await
WriteDone_Stale(result) ==
    /\ running.write # ""
    /\ Return("write", ReportOf(result),
              [held.write EXCEPT !.report_content = <<ReportOf(result)>>])

\* call_write_agent from the return of the write agent on; state is the
\* object the store holds, so what other tools stored meanwhile is in it
WriteDone(result) ==
    /\ running.write # ""
    /\ Return("write", ReportOf(result),
              [report_state EXCEPT !.report_content = <<ReportOf(result)>>])

\* call_review_agent run whatever the report content
ReviewRun_Unchecked ==
    Run("review", "Review the following report: "
            \o (IF report_state.report_content = <<>> THEN "None" ELSE report_state.report_content[1]))

\* as ReviewRun, returning early only when no report content is stored
ReviewRun_NoneOnly ==
    IF report_state.report_content = <<>>
    THEN /\ running.review = ""
         /\ Return("review", "No report content to review.", report_state)
    ELSE Run("review", "Review the following report: " \o report_state.report_content[1])

\* call_review_agent up to its await, or to its early return
ReviewRun ==
    IF report_state.report_content \in {<<>>, <<"">>}
    THEN /\ running.review = ""
         /\ Return("review", "No report content to review.", report_state)
    ELSE Run("review", "Review the following report: " \o report_state.report_content[1])

\* call_review_agent from the return of the review agent on
ReviewDone(result) ==
    /\ running.review # ""
    /\ Return("review", result, [report_state EXCEPT !.review = <<result>>])

\* the awaited sub-agent run of a tool raises, and so does the tool call
SubAgentRaise(tool) ==
    /\ running[tool] # ""
    /\ running' = [running EXCEPT ![tool] = ""]
    /\ report_event' = [tool |-> tool, kind |-> "raised"]
    /\ UNCHANGED <<report_state, returned, held>>

\* ------------------------------------------------------------------------
\* The recruitment tools of src/exp2/agents.py, called one after the other
\* on one workflow context (src/exp2/main.py).  A dict is a function; a key
\* that may be absent from a dict of fixed keys holds an optional value.
\* ------------------------------------------------------------------------

VARIABLES
    recruit_state,  \* the "state" entry of the workflow context's store
    recruit_ret,    \* the tool call made last: the tool, its first argument,
                    \* what it returned (or how it raised) and whether it
                    \* ran its sub-agent
    recruit_trace   \* history: the tool calls made since the initial state,
                    \* with what each returned, for as long (on) as they
                    \* follow the prescribed sequence

recruit_vars == <<recruit_state, recruit_ret, recruit_trace>>

DUMMY_RESUMES ==
    [c \in {"c1"} |->
        [name |-> "Alice", skills |-> <<"Python", "ML">>, experience |-> "5y",
         email |-> "alice@example.com", matches |-> <<>>]]

\* the jobs in the order of the dict, with the one field the tools read
DUMMY_JOBS ==
    <<[id |-> "j1", required_skills |-> <<"Python", "Machine Learning", "Data Analysis">>],
      [id |-> "j2", required_skills |-> <<"JavaScript", "React", "CSS">>]>>

DUMMY_SLOTS == <<"2025-08-01T10:00", "2025-08-01T14:00">>

\* d[k] = v
Put(d, k, v) == [x \in DOMAIN d \cup {k} |-> IF x = k THEN v ELSE d[x]]

\* the jobs that require every skill of the profile's
Matches_AllSkills(profile) ==
    LET hit == SelectSeq(DUMMY_JOBS, LAMBDA j :
                  \A k \in 1..Len(j.required_skills) :
                      \E s \in 1..Len(profile.skills) : j.required_skills[k] = profile.skills[s])
    IN  [i \in 1..Len(hit) |-> hit[i].id]

\* [jid for jid, j in DUMMY_JOBS.items()
\*      if any(s in profile["skills"] for s in j["required_skills"])]
Matches(profile) ==
    LET hit == SelectSeq(DUMMY_JOBS, LAMBDA j :
                  \E k \in 1..Len(j.required_skills) :
                      \E s \in 1..Len(profile.skills) : j.required_skills[k] = profile.skills[s])
    IN  [i \in 1..Len(hit) |-> hit[i].id]

\* The sequence the orchestrator is told to follow, for a candidate, a job
\* and a slot
Prescribed(c, j, slot) ==
    <<<<"parse", c>>, <<"match", c>>, <<"apply", c, j>>,
      <<"slots", c \o "_" \o j>>, <<"calendar", c \o "_" \o j, slot>>>>

RecruitStart ==
    /\ recruit_state = [candidates |-> <<>>, applications |-> <<>>, interviews |-> <<>>]
    /\ recruit_ret = [tool |-> "", arg |-> "", value |-> "", ran |-> FALSE]
    /\ recruit_trace = [on |-> TRUE, calls |-> <<>>, values |-> <<>>]

\* A tool call ends: it returned value, or raised (value "raised" when its
\* sub-agent did, "KeyError" when the tool did), having run its sub-agent
\* or not, and leaves the state as given
Call(call, value, ran, state) ==
    LET made == Append(recruit_trace.calls, call)
        on == /\ recruit_trace.on
              /\ Len(made) <= 5
              /\ \E c \in {"c1", "c2"}, j \in {"j1", "j2"}, slot \in {call[Len(call)]} :
                     made = SubSeq(Prescribed(c, j, slot), 1, Len(made))
    IN  /\ recruit_state' = state
        /\ recruit_ret' = [tool |-> call[1], arg |-> call[2], value |-> value, ran |-> ran]
        /\ recruit_trace' =
              IF on THEN [on |-> TRUE, calls |-> made, values |-> Append(recruit_trace.values, value)]
              ELSE [on |-> FALSE, calls |-> <<>>, values |-> <<>>]

\* Every tool runs its sub-agent, which answers (res is str(res)) or raises
\* (res = "raised"), and writes the state only once the agent has answered.
call_parse(candidate_id, res) ==
    IF candidate_id \notin DOMAIN DUMMY_RESUMES
    THEN Call(<<"parse", candidate_id>>, "Candidate not found", FALSE, recruit_state)
    ELSE IF res = "raised"
    THEN Call(<<"parse", candidate_id>>, res, TRUE, recruit_state)
    ELSE \* data is the dict of DUMMY_RESUMES itself, which is the dict the
         \* state holds once the candidate has been parsed: the matches an
         \* earlier call_match stored are in it
         LET data == IF candidate_id \in DOMAIN recruit_state.candidates
                     THEN recruit_state.candidates[candidate_id]
                     ELSE DUMMY_RESUMES[candidate_id]
         IN  Call(<<"parse", candidate_id>>, res, TRUE,
                  [recruit_state EXCEPT !.candidates = Put(@, candidate_id, data)])

\* as call_match, the job matcher run before the profile is looked for
call_match_AgentFirst(candidate_id, res) ==
    IF res = "raised"
    THEN Call(<<"match", candidate_id>>, res, TRUE, recruit_state)
    ELSE IF candidate_id \notin DOMAIN recruit_state.candidates
    THEN Call(<<"match", candidate_id>>, "Parse resume first", TRUE, recruit_state)
    ELSE LET profile == recruit_state.candidates[candidate_id]
         IN  Call(<<"match", candidate_id>>, res, TRUE,
                  [recruit_state EXCEPT !.candidates =
                      Put(@, candidate_id, [profile EXCEPT !.matches = <<Matches(profile)>>])])

call_match(candidate_id, res) ==
    IF candidate_id \notin DOMAIN recruit_state.candidates
    THEN Call(<<"match", candidate_id>>, "Parse resume first", FALSE, recruit_state)
    ELSE IF res = "raised"
    THEN Call(<<"match", candidate_id>>, res, TRUE, recruit_state)
    ELSE LET profile == recruit_state.candidates[candidate_id]
         IN  Call(<<"match", candidate_id>>, res, TRUE,
                  [recruit_state EXCEPT !.candidates =
                      Put(@, candidate_id, [profile EXCEPT !.matches = <<Matches(profile)>>])])

call_apply(candidate_id, job_id, res) ==
    IF res = "raised"
    THEN Call(<<"apply", candidate_id, job_id>>, res, TRUE, recruit_state)
    ELSE Call(<<"apply", candidate_id, job_id>>, res, TRUE,
              [recruit_state EXCEPT !.applications =
                  Put(@, candidate_id \o "_" \o job_id,
                      [candidate_id |-> candidate_id, job_id |-> job_id])])

call_slots(application_id, res) ==
    IF res = "raised"
    THEN Call(<<"slots", application_id>>, res, TRUE, recruit_state)
    ELSE Call(<<"slots", application_id>>, res, TRUE,
              [recruit_state EXCEPT !.interviews =
                  Put(@, application_id,
                      [slots |-> DUMMY_SLOTS, confirmed_slot |-> <<>>, event_id |-> <<>>])])

\* state["interviews"][application_id] raises KeyError when call_slots has
\* stored no interview for the application
call_event(application_id, slot, res) ==
    IF res = "raised"
    THEN Call(<<"calendar", application_id, slot>>, res, TRUE, recruit_state)
    ELSE IF application_id \notin DOMAIN recruit_state.interviews
    THEN Call(<<"calendar", application_id, slot>>, "KeyError", TRUE, recruit_state)
    ELSE LET iv == recruit_state.interviews[application_id]
         IN  Call(<<"calendar", application_id, slot>>, res, TRUE,
                  [recruit_state EXCEPT !.interviews =
                      Put(@, application_id,
                          [iv EXCEPT !.confirmed_slot = <<slot>>,
                                     !.event_id = <<"evt_" \o application_id>>])])

\* ------------------------------------------------------------------------
\* interactive_mode: the read-process loop of the console programs
\* (complex.py and "5 simplified.py" have the same loop; they differ in the
\* pipeline the loop calls)
\* ------------------------------------------------------------------------

\* the lines read in one run of the loop
MaxInputs == 3

VARIABLES
    loop_pc,        \* "prompt": waiting in input(); "processing": awaiting the
                    \* pipeline; "exited": after the break
    user_input,     \* the local user_input of the loop
    loop_log        \* one entry per line read: the line, what was passed to
                    \* the pipeline (<<>> when it was not called), how the
                    \* iteration ended and what it printed

loop_vars == <<loop_pc, user_input, loop_log>>

\* lines a user may type
LoopInputs ==
    {"exit", " EXIT ", "Exit\t", "", "   ", "exits", " exit now", "ex it",
     "weather in Tokyo"}

\* what the pipeline may answer, and the exceptions it may raise
LoopResponses == {"It is sunny."}
LoopErrors == {"Request timed out", "division by zero"}

LoopStart ==
    /\ loop_pc = "prompt"
    /\ user_input = ""
    /\ loop_log = <<>>

LogEntry(line, sent, outcome, printed) ==
    [line |-> line, sent |-> sent, outcome |-> outcome, printed |-> printed]

\* as ReadInput, comparing and passing on the line as typed
ReadInput_Unstripped(line) ==
    /\ loop_pc = "prompt"
    /\ Len(loop_log) < MaxInputs
    /\ user_input' = line
    /\ IF lower(line) = "exit"
       THEN /\ loop_pc' = "exited"
            /\ loop_log' = Append(loop_log, LogEntry(line, <<>>, "break", "Goodbye!"))
       ELSE IF line = ""
       THEN /\ loop_pc' = "prompt"
            /\ loop_log' = Append(loop_log, LogEntry(line, <<>>, "continue", ""))
       ELSE /\ loop_pc' = "processing"
            /\ loop_log' = Append(loop_log,
                   LogEntry(line, <<line>>, "awaiting", "Processing: " \o line))

\* input(...).strip(), the two tests, and the call of the pipeline
ReadInput(line) ==
    /\ loop_pc = "prompt"
    /\ Len(loop_log) < MaxInputs
    /\ user_input' = strip(line)
    /\ IF lower(user_input') = "exit"
       THEN /\ loop_pc' = "exited"
            /\ loop_log' = Append(loop_log, LogEntry(line, <<>>, "break", "Goodbye!"))
       ELSE IF user_input' = ""
       THEN /\ loop_pc' = "prompt"
            /\ loop_log' = Append(loop_log, LogEntry(line, <<>>, "continue", ""))
       ELSE /\ loop_pc' = "processing"
            /\ loop_log' = Append(loop_log,
                   LogEntry(line, <<user_input'>>, "awaiting",
                            "Processing: " \o user_input'))

\* the pipeline returns: the response is printed and the loop goes round
ProcessReturn(response) ==
    /\ loop_pc = "processing"
    /\ loop_pc' = "prompt"
    /\ loop_log' = [loop_log EXCEPT ![Len(loop_log)] =
           [@ EXCEPT !.outcome = "answered",
                     !.printed = "Final Response: " \o response]]
    /\ UNCHANGED user_input

\* the pipeline raises: except Exception prints the error and the loop goes
\* round
ProcessRaise(e) ==
    /\ loop_pc = "processing"
    /\ loop_pc' = "prompt"
    /\ loop_log' = [loop_log EXCEPT ![Len(loop_log)] =
           [@ EXCEPT !.outcome = "error", !.printed = "Error: " \o e]]
    /\ UNCHANGED user_input

\* ------------------------------------------------------------------------
\* exp1/5.py: the search for a working model when the script is loaded
\* ------------------------------------------------------------------------

VARIABLES
    setup_pc,       \* "testing": in the loop of test_model_availability;
                    \* "loaded": the rest of the module has been executed;
                    \* "exited": after exit(1)
    tried,          \* the models tried so far, each with the exception its
                    \* test raised ("" when the test completed)
    llm,            \* the module-level llm: <<>> while unbound, else <<model>>
    agents,         \* the agents built by the module, each with its llm
    exit_status     \* <<>> while the script runs, else the status of exit()

setup_vars == <<setup_pc, tried, llm, agents, exit_status>>

models_to_try == <<"llama3.1:8b", "llama3.1", "llama3.2", "llama3", "phi3", "mistral">>

\* the agents the module defines once llm is bound
AgentNames == {"CalculatorAgent", "WeatherAgent", "OrchestratorAgent"}

\* exceptions the Ollama client raises when a model cannot be used
ModelErrors == {"connection refused", "model not found", "timed out"}

SetupStart ==
    /\ setup_pc = "testing"
    /\ tried = <<>>
    /\ llm = <<>>
    /\ agents = {}
    /\ exit_status = <<>>

\* the model of the current iteration of `for model in models_to_try`
CurrentModel == models_to_try[Len(tried) + 1]

\* Ollama(model) and complete("Hello") succeed: test_model_availability
\* returns the client, llm is bound and the module goes on to define the agents
TryModelOk ==
    /\ setup_pc = "testing"
    /\ tried' = Append(tried, [model |-> CurrentModel, error |-> ""])
    /\ llm' = <<CurrentModel>>
    /\ agents' = {[name |-> a, llm |-> CurrentModel] : a \in AgentNames}
    /\ setup_pc' = "loaded"
    /\ UNCHANGED exit_status

\* as TryModelFailed, the first failure ending the search
TryModelFailed_Abort(e) ==
    /\ setup_pc = "testing"
    /\ tried' = Append(tried, [model |-> CurrentModel, error |-> e])
    /\ setup_pc' = "exited"
    /\ exit_status' = <<1>>
    /\ UNCHANGED <<llm, agents>>

\* the test raises: the failure is printed and the loop continues; after the
\* last model the function raises, and the module-level handler calls exit(1)
TryModelFailed(e) ==
    /\ setup_pc = "testing"
    /\ tried' = Append(tried, [model |-> CurrentModel, error |-> e])
    /\ IF Len(tried') < Len(models_to_try)
       THEN UNCHANGED <<setup_pc, exit_status>>
       ELSE /\ setup_pc' = "exited"
            /\ exit_status' = <<1>>
    /\ UNCHANGED <<llm, agents>>

\* ------------------------------------------------------------------------
\* Specifications
\* ------------------------------------------------------------------------

vars == <<pipeline_vars, session_vars, lookup_vars, report_vars, recruit_vars,
          loop_vars, setup_vars>>

Init ==
    /\ pc = "idle"
    /\ city_i = 0
    /\ analysis = NoAnalysis
    /\ results = EmptyResults
    /\ final_response = ""
    /\ calls = <<>>
    /\ tool_calls = <<>>
    /\ replies = <<>>
    /\ seen = [none |-> {}, failed |-> {}]
    /\ context = NewContext
    /\ memory = [weather |-> 0, calculator |-> 0]
    /\ prev = [analysis |-> NoAnalysis, replies |-> <<>>, results |-> EmptyResults]
    /\ LookupStart
    /\ ReportStart
    /\ RecruitStart
    /\ LoopStart
    /\ SetupStart

\* what a step of the pipeline leaves alone
PipelineOnly ==
    UNCHANGED <<session_vars, lookup_vars, report_vars, recruit_vars, loop_vars, setup_vars>>

\* The pipeline serving one request after the other
Next ==
    \/ \E query \in Queries : Receive(query) /\ PipelineOnly
    \/ WeatherReply /\ PipelineOnly
    \/ \E e \in ExcMsgs : WeatherRaise(e) /\ PipelineOnly
    \/ \E fn \in CalcOps, x \in CalcXs, y \in CalcYs : CalcReply(fn, x, y) /\ PipelineOnly
    \/ \E fn1 \in ChainOps, fn2 \in ChainOps : CalcChainReply(fn1, fn2) /\ PipelineOnly
    \/ \E e \in ExcMsgs : CalcRaise(e) /\ PipelineOnly
    \/ NextRequest /\ PipelineOnly

Spec == Init /\ [][Next]_vars

\* The pipeline in a session.  An achat call that returns has put the
\* user's message and the agent's answer in the agent's memory; one that
\* raises may or may not have kept the user's message.  The session goes on
\* while the memories hold fewer than MaxMemory messages.
SessionOnly ==
    UNCHANGED <<lookup_vars, report_vars, recruit_vars, loop_vars, setup_vars>>

SessionNextRequest ==
    /\ NextRequest
    /\ prev' = [analysis |-> analysis, replies |-> replies, results |-> results]
    /\ UNCHANGED memory
    /\ SessionOnly

NextSession ==
    \/ \E query \in SessionQueries :
          /\ memory.weather + memory.calculator < MaxMemory
          /\ Receive(query) /\ UNCHANGED session_vars /\ SessionOnly
    \/ WeatherReply /\ Remember("weather", 2) /\ UNCHANGED prev /\ SessionOnly
    \/ \E e \in ExcMsgs, n \in {0, 1} :
          WeatherRaise(e) /\ Remember("weather", n) /\ UNCHANGED prev /\ SessionOnly
    \/ \E fn \in CalcOps, x \in CalcXs, y \in CalcYs :
          CalcReply(fn, x, y) /\ Remember("calculator", 2) /\ UNCHANGED prev /\ SessionOnly
    \/ \E fn1 \in ChainOps, fn2 \in ChainOps :
          CalcChainReply(fn1, fn2) /\ Remember("calculator", 2) /\ UNCHANGED prev /\ SessionOnly
    \/ \E e \in ExcMsgs, n \in {0, 1} :
          CalcRaise(e) /\ Remember("calculator", n) /\ UNCHANGED prev /\ SessionOnly
    \/ SessionNextRequest

SpecSession == Init /\ [][NextSession]_vars

\* The session with the one step the program takes on its own: the caller
\* going on once process_user_message has returned.  That an awaited agent
\* call ever returns or raises is up to the agent.
SpecSessionFair == SpecSession /\ WF_vars(SessionNextRequest)

\* get_weather applied to one city name after the other
LookupOnly ==
    UNCHANGED <<pipeline_vars, session_vars, report_vars, recruit_vars, loop_vars, setup_vars>>

NextLookup ==
    \/ \E city \in CityArgs : Lookup(city) /\ LookupOnly
    \/ LookupReturn /\ LookupOnly

SpecLookup == Init /\ [][NextLookup]_vars

\* The report tools called in any order, overlapping or not, with the
\* results the three sub-agents may give
ReportOnly ==
    UNCHANGED <<pipeline_vars, session_vars, lookup_vars, recruit_vars, loop_vars, setup_vars>>

NextReport ==
    \/ \E prompt \in {"topic"} : ResearchRun(prompt) /\ ReportOnly
    \/ \E result \in {"note a", "note b"} : ResearchDone(result) /\ ReportOnly
    \/ WriteRun /\ ReportOnly
    \/ \E result \in {"... Report A ...", "Report B", "......"} : WriteDone(result) /\ ReportOnly
    \/ ReviewRun /\ ReportOnly
    \/ \E result \in {"approved", "changes requested"} : ReviewDone(result) /\ ReportOnly
    \/ \E tool \in {"research", "write", "review"} : SubAgentRaise(tool) /\ ReportOnly

SpecReport == Init /\ [][NextReport]_vars

\* The recruitment tools called in any order: call_parse, call_match and
\* call_apply for a candidate of the resume table (c1) or an unknown one
\* (c2), the two interview tools for the applications of c1
RecruitOnly ==
    UNCHANGED <<pipeline_vars, session_vars, lookup_vars, report_vars, loop_vars, setup_vars>>

NextRecruit ==
    \/ \E c \in {"c1", "c2"}, res \in {"ok", "raised"} : call_parse(c, res) /\ RecruitOnly
    \/ \E c \in {"c1", "c2"}, res \in {"ok", "raised"} : call_match(c, res) /\ RecruitOnly
    \/ \E c \in {"c1", "c2"}, j \in {"j1", "j2"}, res \in {"ok", "raised"} :
          call_apply(c, j, res) /\ RecruitOnly
    \/ \E c \in {"c1"}, j \in {"j1", "j2"}, res \in {"ok", "raised"} :
          call_slots(c \o "_" \o j, res) /\ RecruitOnly
    \/ \E c \in {"c1"}, j \in {"j1", "j2"}, res \in {"ok", "raised"},
          slot \in {"2025-08-01T10:00", "2025-08-02T09:00"} :
          call_event(c \o "_" \o j, slot, res) /\ RecruitOnly

SpecRecruit == Init /\ [][NextRecruit]_vars

\* The console loop reading any lines, the pipeline answering or raising
LoopOnly ==
    UNCHANGED <<pipeline_vars, session_vars, lookup_vars, report_vars, recruit_vars,
                setup_vars>>

NextLoop ==
    \/ \E line \in LoopInputs : ReadInput(line) /\ LoopOnly
    \/ \E response \in LoopResponses : ProcessReturn(response) /\ LoopOnly
    \/ \E e \in LoopErrors : ProcessRaise(e) /\ LoopOnly

SpecLoop == Init /\ [][NextLoop]_vars

\* The script being loaded, each model's test succeeding or failing
SetupOnly ==
    UNCHANGED <<pipeline_vars, session_vars, lookup_vars, report_vars, recruit_vars,
                loop_vars>>

NextSetup ==
    \/ TryModelOk /\ SetupOnly
    \/ \E e \in ModelErrors : TryModelFailed(e) /\ SetupOnly

SpecSetup == Init /\ [][NextSetup]_vars

\* ------------------------------------------------------------------------
\* Properties
\* ------------------------------------------------------------------------

\* kw occurs in q at index i, letter case ignored
OccursAtCI(q, kw, i) ==
    /\ i + Len(kw) - 1 <= Len(q)
    /\ \A k \in 1..Len(kw) : LowerChar(Char(q, i + k - 1)) = LowerChar(Char(kw, k))

\* the indices of q at which some keyword occurs, letter case ignored
Occurrences(keywords, q) ==
    {i \in 1..Len(q) : \E k \in 1..Len(keywords) : OccursAtCI(q, keywords[k], i)}

\* For every request of the model: whether a trigger keyword of each domain
\* occurs in it, and where the first one does (0: nowhere)
Triggers ==
    [q \in Queries |->
        LET m == Occurrences(math_keywords, q)
            w == Occurrences(weather_keywords, q)
        IN  [math        |-> m # {},
             weather     |-> w # {},
             math_at     |-> IF m = {} THEN 0 ELSE Min(m),
             weather_at  |-> IF w = {} THEN 0 ELSE Min(w)]]

Request == analysis.original_query

\* analyze_query has just returned and no agent call has yet
JustAnalyzed == pc # "idle" /\ results = EmptyResults /\ Len(calls) <= 1

Label(agent) == IF agent = "calculator" THEN MathLabel ELSE WeatherLabel

Labeled(r) == Label(r.agent) \o r.response

\* the agent calls a request is to make: the weather agent for each city of
\* the plan, then the calculator agent
PlannedCalls(an) ==
    (IF an.has_weather
     THEN [i \in 1..Len(PlanCities(an)) |->
            [agent |-> "weather", msg |-> weather_query(PlanCities(an)[i])]]
     ELSE <<>>)
    \o (IF an.has_math THEN <<[agent |-> "calculator", msg |-> an.original_query]>> ELSE <<>>)

\* the successes execute_plan returned, weather first, as history entries
ReturnedSuccesses(res) ==
    [i \in 1..Len(res.weather_results) |->
        [agent |-> "weather", response |-> res.weather_results[i].response]]
    \o [i \in 1..Len(res.calculation_results) |->
        [agent |-> "calculator", response |-> res.calculation_results[i].response]]

Failed(entry) == StartsAt(entry, LogFail, 1)

\* C1: an exception raised by one agent call in execute_plan is caught and
\* logged, every remaining call of the request is still made, and
\* execute_plan returns normally with the results of the calls that
\* succeeded.
C1_FailureDoesNotAbort ==
    /\ pc # "raised"
    /\ pc = "done" =>
        /\ calls = PlannedCalls(analysis)
        /\ Len(results.execution_log) = Len(calls)
        /\ ReturnedSuccesses(results) = replies
        /\ Cardinality({i \in 1..Len(results.execution_log) : ~Failed(results.execution_log[i])})
             = Len(replies)

\* a request whose first call failed and whose later calls were made, one of
\* them with success
C1_Witness ==
    /\ pc = "done"
    /\ Len(calls) >= 3
    /\ Failed(results.execution_log[1])
    /\ replies # <<>>

\* C2 (as claimed): for a request matching both domains, the partial results
\* and the labeled parts of the final response come in the order in which
\* the two domains were first detected in the request text, and the response
\* holds both labeled payloads.
C2_DetectionOrder ==
    (/\ pc = "done"
     /\ Triggers[Request].math /\ Triggers[Request].weather
     /\ results.calculation_results # <<>> /\ results.weather_results # <<>>)
    => LET mathFirst == Triggers[Request].math_at < Triggers[Request].weather_at
           parts == ResponseParts(results)
       IN  /\ (calls[1].agent = "calculator") = mathFirst
           /\ StartsAt(parts[1], MathLabel, 1) = mathFirst
           /\ \A i \in 1..Len(replies) : In(Labeled(replies[i]), final_response)

\* C3 (as claimed): the final response is the labeled success payloads in the
\* order in which execute_plan invoked the agents that produced them.
C3_ResponseKeepsInvocationOrder ==
    (pc = "done" /\ replies # <<>>)
    => final_response = Join([i \in 1..Len(replies) |-> Labeled(replies[i])], "\n\n")

\* C4: analyze_query sets has_math exactly when some math keyword occurs in
\* the request, letter case ignored, and has_weather exactly when some
\* weather keyword does; neither flag depends on anything else.
C4_DomainIffKeyword ==
    JustAnalyzed =>
        /\ analysis.has_math = Triggers[Request].math
        /\ analysis.has_weather = Triggers[Request].weather

\* a request whose only keyword is written with a capital
C4_Witness ==
    /\ JustAnalyzed
    /\ Request = "Hot Paris"
    /\ analysis.has_weather /\ ~analysis.has_math

\* C5: a request with no trigger keyword of any domain (empty and
\* whitespace-only text included) is classified into no domain, no agent is
\* called for it, and its response is the fallback message.
C5_NoKeywordFallback ==
    (JustAnalyzed /\ ~Triggers[Request].math /\ ~Triggers[Request].weather)
    => /\ NoDomain(analysis)
       /\ pc = "done"
       /\ calls = <<>> /\ tool_calls = <<>>
       /\ final_response = Fallback

\* a whitespace-only request answered with the fallback
C5_Witness ==
    /\ pc = "done"
    /\ Request = "  "
    /\ calls = <<>>
    /\ final_response = Fallback

\* C6 (as claimed): the response to a request that implicated no domain
\* differs from the response to a request whose every agent call failed.
C6_DistinctFallbacks == seen.none \cap seen.failed = {}

\* C7: when at least one agent was called and every call failed, the final
\* response is exactly the one fallback message and holds none of the
\* exceptions' text.
C7_AllFailedFallback ==
    (pc = "done" /\ calls # <<>> /\ replies = <<>>)
    => /\ final_response = Fallback
       /\ \A e \in ExcMsgs : ~In(e, final_response)
       /\ \A i \in 1..Len(results.execution_log) : ~In(results.execution_log[i], final_response)

\* two calls made, both failed
C7_Witness ==
    /\ pc = "done"
    /\ Len(calls) >= 2
    /\ replies = <<>>
    /\ \A i \in 1..Len(results.execution_log) : Failed(results.execution_log[i])

\* the request matches the triggers of exactly one domain
OneDomain == Triggers[Request].math # Triggers[Request].weather

C9_TwoOutcomes ==
    /\ pc \in {"idle", "weather", "math", "done"}
    /\ pc = "done" =>
        IF replies = <<>>
        THEN final_response = Fallback
        ELSE /\ final_response # Fallback
             /\ \E i \in 1..Len(replies) : In(Labeled(replies[i]), final_response)
             /\ StartsAt(final_response, MathLabel, 1) \/ StartsAt(final_response, WeatherLabel, 1)

\* a response with a success payload although a call of the request failed
C9_Witness ==
    /\ pc = "done"
    /\ replies # <<>>
    /\ Len(replies) < Len(calls)
    /\ Failed(results.execution_log[Len(results.execution_log)])

\* the calculator divided by zero in this request
DividedByZero == \E i \in 1..Len(tool_calls) : tool_calls[i][1] = "divide" /\ tool_calls[i][3] = 0

\* C10 (as claimed): a division by zero ends as a failure of the math
\* domain, not as an exception and not as a result, and the weather results
\* of the same request still reach the response.
C10_DivideByZeroIsFailure ==
    /\ pc # "raised"
    /\ (pc = "done" /\ DividedByZero) =>
        /\ results.calculation_results = <<>>
        /\ Failed(results.execution_log[Len(results.execution_log)])
        /\ \A i \in 1..Len(results.weather_results) :
             In(WeatherLabel \o results.weather_results[i].response, final_response)

\* a and b are the same text, letter case ignored
EqualsCI(a, b) == Len(a) = Len(b) /\ OccursAtCI(a, b, 1)

\* C11: get_weather never fails: for a city whose name, letter case
\* ignored, is a key of the weather table it returns the heading
\* 'Weather in <city as given>: ' followed by exactly the string stored for
\* that key; for every other name it returns the same heading followed by
\* the default weather string.
C11_LookupOrDefault ==
    lookup_result # "" =>
        LET heading == "Weather in " \o lookup_city \o ": "
            keys == {i \in 1..Len(weather_cities) : EqualsCI(lookup_city, weather_cities[i])}
        IN  /\ StartsAt(lookup_result, heading, 1)
            /\ LET payload == SubSeq(lookup_result, Len(heading) + 1, Len(lookup_result))
               IN  IF keys # {}
                   THEN \A i \in keys : payload = weather_data[weather_cities[i]]
                   ELSE payload = "Temperature: 25°C, Partly cloudy (default)"

\* a known city written in capitals answered with its stored string
C11_Witness ==
    /\ lookup_city = "TOKYO"
    /\ lookup_result = "Weather in TOKYO: Temperature: 25°C, Clear skies"

\* C12 (as claimed): nothing a request produced survives into the next one:
\* the results of a request hold only what its own agent calls returned,
\* SimpleOrchestrator.context is never modified, and between two requests
\* no agent holds state of an earlier request.
C12_NothingSurvives ==
    /\ pc = "done" => ReturnedSuccesses(results) = replies
    /\ context = NewContext
    /\ pc = "idle" => memory = [weather |-> 0, calculator |-> 0]

\* C13: two successive execute_plan calls on the same analysis, the agents
\* answering the same both times, return equal weather_results and equal
\* calculation_results, in the same order.
C13_SameAnswersSameResults ==
    (pc = "done" /\ prev.analysis = analysis /\ prev.replies = replies)
    => /\ results.weather_results = prev.results.weather_results
       /\ results.calculation_results = prev.results.calculation_results

\* the same request served twice in a row, answered both times
C13_Witness ==
    /\ pc = "done"
    /\ prev.analysis = analysis
    /\ prev.replies = replies
    /\ replies # <<>>
    /\ results.weather_results # <<>>

Q15 == "What is 10 - 5? Then add 3."

\* C15 (as claimed): for the request Q15 only the math domain is detected,
\* with the operands 10, 5, 3 of the two operations extracted in order, the
\* calculator works the two operations out, and the final response is
\* "Mathematical result: 8".
C15_AlwaysEight ==
    (pc = "done" /\ Request = Q15)
    => /\ analysis.has_math /\ ~analysis.has_weather
       /\ analysis.numbers = <<"10", "5", "3">>
       /\ Len(tool_calls) = 2
       /\ final_response = "Mathematical result: 8"

\* C15 (amended): for the request Q15 analyze_query detects only the math
\* domain and extracts the numbers '10', '5', '3.'; execute_plan calls the
\* calculator agent once, with the whole request; the final response is the
\* single part "Mathematical result: " followed by the agent's answer, hence
\* "Mathematical result: 8" when the agent computes subtract(10, 5), then
\* add(5, 3), and answers with the last output; it is the fallback when the
\* call raises.
C15_LabeledAgentAnswer ==
    (pc = "done" /\ Request = Q15)
    => /\ analysis.has_math /\ ~analysis.has_weather
       /\ analysis.numbers = <<"10", "5", "3.">>
       /\ calls = <<[agent |-> "calculator", msg |-> Q15]>>
       /\ results.weather_results = <<>>
       /\ IF replies = <<>>
          THEN final_response = Fallback
          ELSE final_response = "Mathematical result: " \o replies[1].response
       /\ tool_calls = << <<"subtract", 10, 5>>, <<"add", 5, 3>> >>
            => final_response = "Mathematical result: 8"

\* the agent subtracted, then added, and the response is the labeled 8
C15_Witness ==
    /\ pc = "done"
    /\ Request = Q15
    /\ tool_calls = << <<"subtract", 10, 5>>, <<"add", 5, 3>> >>
    /\ final_response = "Mathematical result: 8"

\* C16 (as claimed): a request whose agent call is awaited always
\* eventually yields a final response, even if the agent never returns.
C16_AlwaysAnswered == (pc \in {"weather", "math"}) ~> (pc = "done")

\* For every request of the model, from its lower-cased text: what each of
\* the three patterns finds, the words that follow a preposition and white
\* space (whole or cut short), and the indices of the known city names that
\* occur in it
CityScan ==
    [q \in Queries |->
        LET ql == lower(q)
        IN  [found |-> <<FindKwPrep(ql, "weather", 1),
                         FindKwPrep(ql, "temperature", 1),
                         FindPrepKw(ql, "weather", 1)>>,
             after_prep |-> {SubSeq(ql, PrepGroupAt(ql, j)[1], e) :
                                j \in {k \in 1..Len(ql) : PrepGroupAt(ql, k)[1] > 0},
                                e \in 1..Len(ql)},
             known |-> {i \in 1..Len(common_cities) : In(common_cities[i], ql)}]]

\* the cities are what the patterns found, in pattern order, and are names
\* of the list, in list order and each once, only when no pattern found
\* anything
PatternsThenList ==
    LET scan == CityScan[Request]
        found == scan.found[1] \o scan.found[2] \o scan.found[3]
        cities == analysis.cities
    IN  IF found # <<>>
        THEN cities = found
        ELSE /\ Len(cities) = Cardinality(scan.known)
             /\ \A k \in 1..Len(cities) :
                    \E i \in scan.known :
                        /\ cities[k] = common_cities[i]
                        /\ Cardinality({h \in scan.known : h < i}) = k - 1

\* C14 (as claimed): the cities are extracted by the patterns first, by the
\* list of known names only when no pattern matched, in pattern order and
\* in list order, and every extracted city is a known city name.
C14_OnlyKnownNames ==
    JustAnalyzed =>
        /\ PatternsThenList
        /\ \A k \in 1..Len(analysis.cities) :
             \E i \in 1..Len(common_cities) : analysis.cities[k] = common_cities[i]

\* C14 (amended): the cities are extracted by the patterns first, by the
\* list of known names only when no pattern matched, in pattern order and
\* in list order; a city extracted by a pattern is the word that follows
\* the preposition, known or not; a city taken from the list is a known
\* name.
C14_WordsThenKnownNames ==
    JustAnalyzed =>
        /\ PatternsThenList
        /\ \A k \in 1..Len(analysis.cities) :
             IF CityScan[Request].found = <<<<>>, <<>>, <<>>>>
             THEN \E i \in CityScan[Request].known : analysis.cities[k] = common_cities[i]
             ELSE /\ analysis.cities[k] \in CityScan[Request].after_prep
                  /\ analysis.cities[k] # ""
                  /\ \A h \in 1..Len(analysis.cities[k]) : IsWord(Char(analysis.cities[k], h))

\* a pattern extracted a word that is no known city name
C14_Witness ==
    /\ JustAnalyzed
    /\ Request = "weather in Nowhereville"
    /\ analysis.cities = <<"nowhereville">>

\* C17: whatever the calls of the three report tools, the write agent runs
\* only when at least one research note is recorded and the review agent
\* only when report content is stored; so in every reachable state a stored
\* review implies stored report content, which implies a non-empty
\* research_notes list.
C17_StepsInOrder ==
    /\ running.write # "" => report_state.research_notes # <<>>
    /\ running.review # "" => report_state.report_content # <<>>
    /\ report_state.review # <<>> => report_state.report_content # <<>>
    /\ report_state.report_content # <<>> => report_state.research_notes # <<>>

\* a reviewed report being revised while a second note is being researched
C17_Witness ==
    /\ report_state.review = <<"changes requested">>
    /\ report_state.report_content # <<>>
    /\ running.write # ""
    /\ running.research # ""

\* C18: when the recruitment tools are called in the prescribed sequence
\* parse(c), match(c), apply(c, j), slots(c_j), calendar(c_j, slot) from the
\* initial state, for a candidate c of the resume table and with every
\* sub-agent answering, every step succeeds, and after the last one the
\* state holds c with its matches (the jobs that share a required skill
\* with the profile, in job-table order), the application c_j of c to j,
\* and the interview c_j with the offered slots, confirmed_slot = slot and
\* event_id = "evt_c_j".
C18_PrescribedSequence ==
    \A c \in DOMAIN DUMMY_RESUMES, j \in {"j1", "j2"},
       slot \in {"2025-08-01T10:00", "2025-08-02T09:00"} :
        LET n == Len(recruit_trace.calls)
            app == c \o "_" \o j
            sharing == {k \in 1..Len(DUMMY_JOBS) :
                          \E a \in 1..Len(DUMMY_JOBS[k].required_skills),
                             b \in 1..Len(DUMMY_RESUMES[c].skills) :
                              DUMMY_JOBS[k].required_skills[a] = DUMMY_RESUMES[c].skills[b]}
        IN  (/\ recruit_trace.on /\ n > 0
             /\ recruit_trace.calls = SubSeq(Prescribed(c, j, slot), 1, n)
             /\ \A i \in 1..n : recruit_trace.values[i] # "raised")
            => /\ \A i \in 1..n : recruit_trace.values[i] = "ok"
               /\ n = 5 =>
                    /\ c \in DOMAIN recruit_state.candidates
                    /\ LET m == recruit_state.candidates[c].matches
                       IN  /\ Len(m) = 1
                           /\ Len(m[1]) = Cardinality(sharing)
                           /\ \A i \in 1..Len(m[1]) :
                                \E k \in sharing :
                                    /\ m[1][i] = DUMMY_JOBS[k].id
                                    /\ Cardinality({h \in sharing : h < k}) = i - 1
                    /\ app \in DOMAIN recruit_state.applications
                    /\ recruit_state.applications[app] = [candidate_id |-> c, job_id |-> j]
                    /\ app \in DOMAIN recruit_state.interviews
                    /\ recruit_state.interviews[app] =
                         [slots |-> DUMMY_SLOTS, confirmed_slot |-> <<slot>>,
                          event_id |-> <<"evt_" \o c \o "_" \o j>>]

\* the sequence of src/exp2/main.py has been gone through
C18_Witness ==
    /\ recruit_trace.on
    /\ recruit_trace.calls = Prescribed("c1", "j1", "2025-08-01T10:00")
    /\ recruit_trace.values = <<"ok", "ok", "ok", "ok", "ok">>
    /\ recruit_state.candidates["c1"].matches = <<<<"j1">>>>
    /\ recruit_state.interviews["c1_j1"].event_id = <<"evt_c1_j1">>

\* core is line without the white space at its two ends
StripsTo(line, core) ==
    \E i \in 1..(Len(line) + 1), j \in 0..Len(line) :
        /\ i <= j + 1
        /\ core = SubSeq(line, i, j)
        /\ \A k \in 1..Len(line) : (k < i \/ k > j) => IsSpace(Char(line, k))
        /\ i <= j => ~IsSpace(Char(line, i)) /\ ~IsSpace(Char(line, j))

\* the lines that are the word exit in any case, white space around it
IsExitLine(line) == \E core \in {"exit", "EXIT", "Exit"} : StripsTo(line, core)

TriedModels == [i \in 1..Len(tried) |-> tried[i].model]

\* C20: the models are tried in list order; the search goes on exactly while
\* every test so far has failed; the client returned is that of the first
\* model whose test completed, and no later model was tried; when all have
\* failed the script has exited with status 1 and no agent was built.
C20_FirstWorkingModel ==
    /\ Len(tried) <= Len(models_to_try)
    /\ TriedModels = SubSeq(models_to_try, 1, Len(tried))
    /\ \A i \in 1..(Len(tried) - 1) : tried[i].error # ""
    /\ setup_pc = "testing"
          <=> /\ Len(tried) < Len(models_to_try)
              /\ \A i \in 1..Len(tried) : tried[i].error # ""
    /\ setup_pc = "loaded"
          <=> /\ tried # <<>> /\ tried[Len(tried)].error = ""
              /\ llm = <<tried[Len(tried)].model>>
    /\ setup_pc = "loaded"
          => /\ exit_status = <<>>
             /\ {a.name : a \in agents} = AgentNames
             /\ \A a \in agents : <<a.llm>> = llm
    /\ setup_pc = "exited"
          <=> /\ Len(tried) = Len(models_to_try)
              /\ \A i \in 1..Len(tried) : tried[i].error # ""
    /\ setup_pc = "exited" => exit_status = <<1>> /\ llm = <<>> /\ agents = {}
    /\ setup_pc # "loaded" => llm = <<>> /\ agents = {}
    /\ setup_pc # "exited" => exit_status = <<>>

\* two models failed, the third one is used
C20_Witness ==
    /\ Len(tried) = 3
    /\ tried[1].error # "" /\ tried[2].error # ""
    /\ llm = <<"llama3.2">>
    /\ setup_pc = "loaded"

\* the step taken last is the given step of the given tool
ReportStep(tool, kind) == report_event'.tool = tool /\ report_event'.kind = kind

RECURSIVE EachFollowedBy(_, _)
\* every note in turn, each followed by the separator
EachFollowedBy(notes, sep) ==
    IF notes = <<>> THEN ""
    ELSE EachFollowedBy(SubSeq(notes, 1, Len(notes) - 1), sep) \o notes[Len(notes)] \o sep

\* the request to the write agent for the given notes and feedback
WriteRequest(notes, feedback) ==
    "Write a markdown report from the following notes. Be sure to output the report in the following format: ...:\n\n"
        \o feedback \o EachFollowedBy(notes, "\n\n")

\* C21: when call_write_agent runs the write agent, its request holds every
\* note recorded at that moment, in recording order, preceded by the stored
\* review whenever one is stored; and the step that completes the call stores
\* what it returns as report_content and leaves research_notes and review as
\* they were.
C21_WriteFromNotesAndFeedback ==
    [][/\ ReportStep("write", "run") =>
            /\ report_state.research_notes # <<>>
            /\ running'.write =
                  WriteRequest(report_state.research_notes,
                               IF report_state.review = <<>> THEN ""
                               ELSE report_state.review[1] \o "\n\n")
       /\ ReportStep("write", "done") =>
            /\ report_state'.report_content = <<returned'.value>>
            /\ returned'.tool = "write"
            /\ report_state'.research_notes = report_state.research_notes
            /\ report_state'.review = report_state.review]_vars

\* a report revised from two notes and the reviewer's feedback
C21_Witness ==
    /\ report_event = [tool |-> "write", kind |-> "done"]
    /\ held.write.research_notes = <<"note a", "note b">>
    /\ held.write.review = <<"changes requested">>
    /\ held.write.report_content = <<"Report B">>
    /\ report_state = [held.write EXCEPT !.report_content = <<"Report A">>]

\* a is an initial part of b
IsPrefix(a, b) == Len(a) <= Len(b) /\ a = SubSeq(b, 1, Len(a))

\* C22: no step of a report tool removes or reorders a recorded note, and
\* only the completion of call_research_agent adds one: it puts the research
\* agent's result, which it returns, at the end of research_notes and changes
\* neither report_content nor review.
C22_NotesOnlyGrow ==
    [][/\ IsPrefix(report_state.research_notes, report_state'.research_notes)
       /\ ReportStep("research", "done") =>
            /\ returned'.tool = "research"
            /\ report_state'.research_notes =
                  Append(report_state.research_notes, returned'.value)
            /\ report_state'.report_content = report_state.report_content
            /\ report_state'.review = report_state.review
       /\ ~ReportStep("research", "done") =>
            report_state'.research_notes = report_state.research_notes]_vars

\* a second note recorded after a report has been written and reviewed
C22_Witness ==
    /\ report_event = [tool |-> "research", kind |-> "done"]
    /\ report_state.research_notes = <<"note a", "note b">>
    /\ returned = [tool |-> "research", value |-> "note b"]
    /\ report_state.report_content # <<>>
    /\ report_state.review # <<>>

\* C23: when call_write_agent or call_review_agent completes, every note
\* recorded since it read the state, by calls of call_research_agent that
\* completed while it was suspended, is still in research_notes after it has
\* stored its state back, after the notes it had read and in recording
\* order; and it has not undone what the other of the two stored meanwhile.
C23_NoLostUpdate ==
    [][/\ ReportStep("write", "done") =>
            /\ IsPrefix(held.write.research_notes, report_state'.research_notes)
            /\ report_state'.research_notes = report_state.research_notes
            /\ report_state'.review = report_state.review
       /\ ReportStep("review", "done") =>
            /\ IsPrefix(held.review.research_notes, report_state'.research_notes)
            /\ report_state'.research_notes = report_state.research_notes
            /\ report_state'.report_content = report_state.report_content
            /\ report_state'.review = <<returned'.value>>]_vars

\* call_write_agent read one note, a second note was recorded while the
\* write agent ran, and the call has completed
C23_Witness ==
    /\ report_event = [tool |-> "write", kind |-> "done"]
    /\ held.write.research_notes = <<"note a">>
    /\ report_state.research_notes = <<"note a", "note b">>
    /\ report_state.report_content = <<"Report A">>

\* C24: call_write_agent returns early exactly when no note is recorded and
\* call_review_agent exactly when no report content or the empty one is
\* stored; the early return gives the tool's message, starts no sub-agent
\* run and leaves the stored state as it was.
C24_FailedPreconditionDoesNothing ==
    [][/\ (ReportStep("write", "run") \/ ReportStep("write", "early")) =>
            (ReportStep("write", "early") <=> Len(report_state.research_notes) = 0)
       /\ (ReportStep("review", "run") \/ ReportStep("review", "early")) =>
            (ReportStep("review", "early")
                <=> (\A i \in 1..Len(report_state.report_content) :
                        Len(report_state.report_content[i]) = 0))
       /\ ReportStep("write", "early") =>
            /\ returned' = [tool |-> "write", value |-> "No research notes to write from."]
            /\ running' = running /\ running.write = ""
            /\ report_state' = report_state
       /\ ReportStep("review", "early") =>
            /\ returned' = [tool |-> "review", value |-> "No report content to review."]
            /\ running' = running /\ running.review = ""
            /\ report_state' = report_state]_vars

\* the review refused for a report that was written empty
C24_Witness ==
    /\ report_event = [tool |-> "review", kind |-> "early"]
    /\ returned = [tool |-> "review", value |-> "No report content to review."]
    /\ report_state.report_content = <<"">>
    /\ report_state.research_notes # <<>>
    /\ running.review = ""

\* the candidate has matches in the given state
HasMatches(state, c) ==
    c \in DOMAIN state.candidates /\ state.candidates[c].matches # <<>>

\* C25: call_parse returns "Candidate not found" exactly for a candidate id
\* that is not in the resume table, and call_match "Parse resume first"
\* exactly for a candidate the state does not hold, unless its sub-agent
\* raised; a call that returns one of the two has run no sub-agent and has
\* left the state as it was.  A candidate enters the state only by a
\* call_parse that ran its sub-agent, and gets matches only by a call_match
\* for a candidate the state already held.
C25_RefusedCallsDoNothing ==
    [][LET call == <<recruit_ret'.tool, recruit_ret'.arg>>
           value == recruit_ret'.value
       IN  /\ call[1] = "parse" =>
                /\ (\A c \in DOMAIN DUMMY_RESUMES : call[2] # c)
                      <=> value = "Candidate not found"
                /\ value = "Candidate not found" =>
                      ~recruit_ret'.ran /\ recruit_state' = recruit_state
           /\ call[1] = "match" =>
                /\ value = "Parse resume first" =>
                      /\ call[2] \notin DOMAIN recruit_state.candidates
                      /\ ~recruit_ret'.ran /\ recruit_state' = recruit_state
                /\ call[2] \notin DOMAIN recruit_state.candidates =>
                      value = "Parse resume first"
           /\ \A c \in {"c1", "c2"} :
                /\ (c \in DOMAIN recruit_state'.candidates
                      /\ c \notin DOMAIN recruit_state.candidates)
                     => call = <<"parse", c>> /\ recruit_ret'.ran
                /\ (HasMatches(recruit_state', c) /\ ~HasMatches(recruit_state, c))
                     => /\ call = <<"match", c>> /\ recruit_ret'.ran
                        /\ c \in DOMAIN recruit_state.candidates]_vars

\* c1 is parsed and has been given its matches; a match asked for c2, which
\* was refused by call_parse before, is refused too
C25_Witness ==
    /\ recruit_ret = [tool |-> "match", arg |-> "c2",
                      value |-> "Parse resume first", ran |-> FALSE]
    /\ DOMAIN recruit_state.candidates = {"c1"}
    /\ recruit_state.candidates["c1"].matches = <<<<"j1">>>>

====
